---------------------------- MODULE Spec2Model ----------------------------
(***************************************************************************)
(* The contacts service of bank-of-sirius (src/src/contacts/contacts.py):  *)
(* the two request handlers get_contacts and add_contact, the payload      *)
(* validator, the business-rule check and the contact store they share.    *)
(*                                                                         *)
(* Text is modelled as a sequence of one-character strings, so that the    *)
(* regular expressions and the sanitizer are computed, not assumed.  A     *)
(* JSON value is a record [t, v]: t its type, v its text.  The values are  *)
(* those the handler holds once request.get_json() has parsed the body: a  *)
(* number is the Python int or float, and its text is the one repr() gives *)
(* for it ("0", "7", "0.0", "-0.0", "0.5", "1e-05"), never the literal of  *)
(* the request: the literals 0e0 and 1e-400 both arrive as the float 0.0,  *)
(* with the text "0.0".                                                    *)
(***************************************************************************)
EXTENDS Integers, Sequences, FiniteSets, TLC

VARIABLES store, slot, last, acked

vars == <<store, slot, last, acked>>

(***************************************************************************)
(* Bounds of the model.                                                    *)
(***************************************************************************)
\* Contacts stored or about to be stored, over all users.
MaxStore == 2

(***************************************************************************)
(* Characters and JSON values.                                             *)
(***************************************************************************)
Digits == {"0", "1", "2", "3", "4", "5", "6", "7", "8", "9"}

Letters ==
  {"a", "b", "c", "d", "e", "f", "g", "h", "i", "j", "k", "l", "m",
   "n", "o", "p", "q", "r", "s", "t", "u", "v", "w", "x", "y", "z",
   "A", "B", "C", "D", "E", "F", "G", "H", "I", "J", "K", "L", "M",
   "N", "O", "P", "Q", "R", "S", "T", "U", "V", "W", "X", "Y", "Z"}

Str(s) == [t |-> "str", v |-> s]

Null == [t |-> "null", v |-> <<>>]

\* A Python number; s is its repr().
Num(s) == [t |-> "num", v |-> s]

Bool(b) == [t |-> "bool", v |-> IF b THEN <<"t">> ELSE <<"f">>]

\* The number is zero: its repr() is "0", "0.0" or "-0.0".  The repr() of any
\* other number has a digit other than 0 before its exponent, so the test
\* reads that part of the text: a digit, and none other than 0.
IsZero(s) ==
  LET exps == {i \in DOMAIN s : s[i] \in {"e", "E"}}
      m    == IF exps = {} THEN s
              ELSE SubSeq(s, 1, (CHOOSE i \in exps : \A j \in exps : i <= j) - 1)
  IN /\ \E i \in DOMAIN m : m[i] = "0"
     /\ \A i \in DOMAIN m : m[i] \in {"0", ".", "-"}

\* Python truth value of a JSON value (None, False, a number equal to zero
\* and "" are falsy).
Truthy(x) ==
  CASE x.t = "null" -> FALSE
    [] x.t = "bool" -> x.v = <<"t">>
    [] x.t = "num"  -> ~IsZero(x.v)
    [] OTHER        -> x.v # <<>>

(***************************************************************************)
(* Configuration (create_app).                                             *)
(***************************************************************************)
\* app.config["LOCAL_ROUTING"], the value of the spec's scenarios.
LOCAL_ROUTING == <<"1", "2", "3", "4", "5", "6", "7", "8", "9">>

\* Lengths fixed by the validator's patterns.
AccountLen == 10

RoutingLen == 9

LabelMax == 30

(***************************************************************************)
(* Regular expressions of _validate_new_contact.                           *)
(***************************************************************************)
AllIn(s, S) == \A i \in 1..Len(s) : s[i] \in S

\* re.match(r"\A[0-9]{10}\Z", s)
MatchAccount(s) == Len(s) = AccountLen /\ AllIn(s, Digits)

\* re.match(r"\A[0-9]{9}\Z", s)
MatchRouting(s) == Len(s) = RoutingLen /\ AllIn(s, Digits)

\* The whole of s is [0-9a-zA-Z][0-9a-zA-Z ]{0,29}.
LabelBody(s) ==
  /\ Len(s) >= 1
  /\ Len(s) <= LabelMax
  /\ s[1] \in Digits \cup Letters
  /\ AllIn(s, Digits \cup Letters \cup {" "})

\* re.match(r"^[0-9a-zA-Z][0-9a-zA-Z ]{0,29}$", s): without re.MULTILINE "$"
\* matches at the end of the text and also just before a newline that ends it.
MatchLabel(s) ==
  \/ LabelBody(s)
  \/ /\ Len(s) >= 1
     /\ s[Len(s)] = "\n"
     /\ LabelBody(SubSeq(s, 1, Len(s) - 1))

(***************************************************************************)
(* Input Sanitizer: bleach.clean with its defaults, on the markup the       *)
(* model's inputs use.  An HTML comment is removed (strip_comments=True;    *)
(* one left open runs to the end of the text), a "<", ">" or "&" that is    *)
(* left is escaped, and the parser's input stream turns "\r" into "\n".     *)
(***************************************************************************)
StartsWith(s, p) == Len(s) >= Len(p) /\ SubSeq(s, 1, Len(p)) = p

\* Where the comment opened at s[1..4] closes: the first "-->" from s[5] on.
CommentEnds(s) ==
  {i \in 5..(Len(s) - 2) : SubSeq(s, i, i + 2) = <<"-", "-", ">">>}

Min(S) == CHOOSE x \in S : \A y \in S : x <= y

\* The characters the sanitizer does not copy as they are.
Markup == {"<", ">", "&", "\r"}

\* The replacement of a markup character that opens no comment.
Escaped(c) ==
  CASE c = "<" -> <<"&", "l", "t", ";">>
    [] c = ">" -> <<"&", "g", "t", ";">>
    [] c = "&" -> <<"&", "a", "m", "p", ";">>
    [] c = "\r" -> <<"\n">>

RECURSIVE clean(_), cleanMarkup(_)
\* A text that begins with a markup character.
cleanMarkup(s) ==
  IF StartsWith(s, <<"<", "!", "-", "-">>)
    THEN IF CommentEnds(s) = {} THEN <<>>
         ELSE clean(SubSeq(s, Min(CommentEnds(s)) + 3, Len(s)))
    ELSE Escaped(s[1]) \o clean(Tail(s))

\* bleach.clean(s): the text up to the first markup character is copied.
clean(s) ==
  LET markup == {i \in DOMAIN s : s[i] \in Markup}
  IN IF markup = {} THEN s
     ELSE SubSeq(s, 1, Min(markup) - 1)
            \o cleanMarkup(SubSeq(s, Min(markup), Len(s)))

\* add_contact, lines 113-116: every string value is cleaned, any other
\* value passes through.
Sanitize(body) ==
  [k \in DOMAIN body |->
     IF body[k].t = "str" THEN Str(clean(body[k].v)) ELSE body[k]]

(***************************************************************************)
(* Contact Validator.  The result is "ok", one of the UserWarning messages, *)
(* or "TypeError": re.match raises it on a value that is neither a string   *)
(* nor None, and no handler of add_contact catches it.                      *)
(***************************************************************************)
Fields == {"label", "account_num", "routing_num", "is_external"}

MsgMissing == "missing required field(s)"

MsgAccount == "invalid account number"

MsgRouting == "invalid routing number"

MsgLabel == "invalid account label"

\* Rule 4 with the truth test inverted.
ExternalClaimsLocalInverted(req) ==
  ~Truthy(req["is_external"]) /\ req["routing_num"] = Str(LOCAL_ROUTING)

\* Rule 4, lines 165-167: an external account tagged with the local routing
\* number.
ExternalClaimsLocal(req) ==
  Truthy(req["is_external"]) /\ req["routing_num"] = Str(LOCAL_ROUTING)

validate_new_contact(req) ==
  IF \E f \in Fields : f \notin DOMAIN req THEN MsgMissing
  ELSE IF req["account_num"].t = "null" THEN MsgAccount
  ELSE IF req["account_num"].t # "str" THEN "TypeError"
  ELSE IF ~MatchAccount(req["account_num"].v) THEN MsgAccount
  ELSE IF req["routing_num"].t = "null" THEN MsgRouting
  ELSE IF req["routing_num"].t # "str" THEN "TypeError"
  ELSE IF ~MatchRouting(req["routing_num"].v) THEN MsgRouting
  ELSE IF ExternalClaimsLocal(req) THEN MsgRouting
  ELSE IF req["label"].t = "null" THEN MsgLabel
  ELSE IF req["label"].t # "str" THEN "TypeError"
  ELSE IF ~MatchLabel(req["label"].v) THEN MsgLabel
  ELSE "ok"

(***************************************************************************)
(* Business-Rule Enforcer.                                                  *)
(***************************************************************************)
MsgSelf == "may not add yourself to contacts"

MsgDupAccount == "account already exists as a contact"

MsgDupLabel == "contact already exists with that label"

\* SelfReference with the comparison made against the wrong field.
SelfReferenceWrongField(accountid, req) ==
  req["label"] = accountid /\ req["routing_num"] = Str(LOCAL_ROUTING)

\* _check_contact_allowed, lines 176-178: the caller's own account.
SelfReference(accountid, req) ==
  req["account_num"] = accountid /\ req["routing_num"] = Str(LOCAL_ROUTING)

\* CheckExisting without the test of the account pair.
RECURSIVE CheckExistingLabelOnly(_, _)
CheckExistingLabelOnly(contacts, req) ==
  IF contacts = <<>> THEN "ok"
  ELSE IF Head(contacts)["label"] = req["label"] THEN MsgDupLabel
  ELSE CheckExistingLabelOnly(Tail(contacts), req)

\* CheckExisting with the two tests of the loop body in the other order.
RECURSIVE CheckExistingLabelFirst(_, _)
CheckExistingLabelFirst(contacts, req) ==
  IF contacts = <<>> THEN "ok"
  ELSE IF Head(contacts)["label"] = req["label"] THEN MsgDupLabel
  ELSE IF /\ Head(contacts)["account_num"] = req["account_num"]
          /\ Head(contacts)["routing_num"] = req["routing_num"]
    THEN MsgDupAccount
  ELSE CheckExistingLabelFirst(Tail(contacts), req)

\* CheckExisting without the test of the label.
RECURSIVE CheckExistingPairOnly(_, _)
CheckExistingPairOnly(contacts, req) ==
  IF contacts = <<>> THEN "ok"
  ELSE IF /\ Head(contacts)["account_num"] = req["account_num"]
          /\ Head(contacts)["routing_num"] = req["routing_num"]
    THEN MsgDupAccount
  ELSE CheckExistingPairOnly(Tail(contacts), req)

\* _check_contact_allowed, lines 181-187: the loop over the user's contacts,
\* in the order the store returned them; the first raise ends it.
RECURSIVE CheckExisting(_, _)
CheckExisting(contacts, req) ==
  IF contacts = <<>> THEN "ok"
  ELSE IF /\ Head(contacts)["account_num"] = req["account_num"]
          /\ Head(contacts)["routing_num"] = req["routing_num"]
    THEN MsgDupAccount
  ELSE IF Head(contacts)["label"] = req["label"] THEN MsgDupLabel
  ELSE CheckExisting(Tail(contacts), req)

\* ContactData with the two numbers in each other's place.
ContactDataSwapped(username, req) ==
  [username    |-> username,
   label       |-> req["label"],
   account_num |-> req["routing_num"],
   routing_num |-> req["account_num"],
   is_external |-> req["is_external"]]

\* ContactData filed under one fixed user instead of the path's user.
ContactDataWrongOwner(username, req) ==
  [username    |-> "alice",
   label       |-> req["label"],
   account_num |-> req["account_num"],
   routing_num |-> req["routing_num"],
   is_external |-> req["is_external"]]

\* add_contact, lines 121-127.
ContactData(username, req) ==
  [username    |-> username,
   label       |-> req["label"],
   account_num |-> req["account_num"],
   routing_num |-> req["routing_num"],
   is_external |-> req["is_external"]]

(***************************************************************************)
(* Token Authenticator.  A bearer token is an atom of the header text; the  *)
(* table says what jwt.decode makes of it under the configured public key.  *)
(***************************************************************************)
Users == {"alice", "bob"}

\* The account numbers of the token claims; those of the spec's scenarios.
AcctAlice == <<"1", "2", "3", "4", "5", "6", "7", "8", "9", "0">>

AcctBob == <<"0", "0", "0", "0", "0", "0", "0", "0", "0", "1">>

TokenNames ==
  {"tokAlice", "tokBob", "tokBadSig", "tokExpired", "tokImmature",
   "tokNoUser", "tokNoAcct"}

\* Whether signature and timestamps (exp, nbf) verify (jwt.decode, RS256).
Verifies(name) == name \in {"tokAlice", "tokBob", "tokNoUser", "tokNoAcct"}

ClaimsOf(name) ==
  CASE name = "tokAlice"   -> [user |-> "alice", acct |-> Str(AcctAlice)]
    [] name = "tokBob"     -> [user |-> "bob", acct |-> Str(AcctBob)]
    [] name = "tokBadSig"  -> [user |-> "alice", acct |-> Str(AcctAlice)]
    [] name = "tokExpired" -> [user |-> "bob", acct |-> Str(AcctBob)]
    [] name = "tokImmature" -> [user |-> "alice", acct |-> Str(AcctAlice)]
    [] name = "tokNoUser"  -> [acct |-> Str(AcctAlice)]
    [] name = "tokNoAcct"  -> [user |-> "alice"]

\* request.headers.get("Authorization"): absent (None) or a text.
NoHeader == [present |-> FALSE, text |-> <<>>]

Header(text) == [present |-> TRUE, text |-> text]

\* The positions of the separator of auth_header.split(" ").
Spaces(text) == {i \in 1..Len(text) : text[i] = " "}

Max(S) == CHOOSE x \in S : \A y \in S : x >= y

\* auth_header.split(" ")[-1]: what follows the last single space.
LastSegment(text) ==
  IF Spaces(text) = {} THEN text
  ELSE SubSeq(text, Max(Spaces(text)) + 1, Len(text))

\* get_contacts lines 61-65, add_contact lines 101-105.
TokenOf(header) ==
  IF header.present /\ header.text # <<>> THEN LastSegment(header.text)
  ELSE <<>>

\* jwt_decode with verification switched off.
jwt_decode_unverified(token) ==
  IF Len(token) = 1 /\ token[1] \in TokenNames
    THEN [ok |-> TRUE, claims |-> ClaimsOf(token[1])]
    ELSE [ok |-> FALSE, claims |-> <<>>]

\* jwt.decode(token, key, algorithms="RS256"): the claims, or
\* InvalidTokenError for anything that is not one verifying token.
jwt_decode(token) ==
  IF Len(token) = 1 /\ token[1] \in TokenNames /\ Verifies(token[1])
    THEN [ok |-> TRUE, claims |-> ClaimsOf(token[1])]
    ELSE [ok |-> FALSE, claims |-> <<>>]

\* IdentityOk with the test inverted.
IdentityOkInverted(username, claims) == username # claims["user"]

\* Identity Guard: username != auth_payload["user"] raises PermissionError.
IdentityOk(username, claims) == username = claims["user"]

(***************************************************************************)
(* Responses.  A response records the request it answers and what the       *)
(* handler did on the way: whether it validated the payload, how often it   *)
(* called contacts_db.get_contacts (reads) and add_contact (writes), and    *)
(* which payloads of the user had been answered 201 when the request came   *)
(* in (prior), and which store call raised SQLAlchemyError, if one did       *)
(* (failed: "none", "read" or "append").                                    *)
(***************************************************************************)
MsgDenied == "authentication denied"

MsgGetFailed == "failed to retrieve contacts list"

MsgAddFailed == "failed to add contact"

\* Flask's answer to an exception no except clause of the handler catches.
MsgUnhandled == "Internal Server Error"

Response(method, header, username, body, status, msg, list, validated, reads, writes, prior, failed) ==
  [method |-> method, header |-> header, username |-> username, body |-> body,
   status |-> status, msg |-> msg, list |-> list,
   validated |-> validated, reads |-> reads, writes |-> writes, prior |-> prior,
   failed |-> failed]

NoResponse == Response("none", NoHeader, "", <<>>, 0, "", <<>>, FALSE, 0, 0, {}, "none")

\* StoreFailure with the messages of the two handlers exchanged.
StoreFailureSwapped(method) ==
  IF method = "GET" THEN MsgAddFailed ELSE MsgGetFailed

\* The except SQLAlchemyError clauses, lines 81-84 and 146-149: the body of
\* the 500 response.
StoreFailure(method) ==
  IF method = "GET" THEN MsgGetFailed ELSE MsgAddFailed

\* A handler between its duplicate check and its insert holds the request,
\* the contact it is about to insert and the number of contacts its
\* duplicate check read (seen).
Idle == [pc |-> "idle", header |-> NoHeader, username |-> "", body |-> <<>>,
         contact |-> <<>>, prior |-> {}, seen |-> 0]

Workers == {"w1", "w2"}

RECURSIVE Stored(_)
Stored(S) ==
  IF S = {} THEN 0
  ELSE LET u == CHOOSE x \in S : TRUE IN Len(store[u]) + Stored(S \ {u})

\* Contacts stored, and contacts a handler is about to insert.
Load == Stored(Users) + Cardinality({w \in Workers : slot[w].pc = "append"})

(***************************************************************************)
(* Contact Store (ContactsDb of module db): the contacts of each user in    *)
(* the order they were inserted.  A query returns the user's list, an       *)
(* insert appends; nothing in it rejects a second contact with the pair or  *)
(* the label of one it holds.  Either call may instead raise                *)
(* SQLAlchemyError, which the handlers decide by themselves.                *)
(***************************************************************************)
db_get_contacts(username) == store[username]

\* contacts_list with the filter on the user lost.
contacts_list_unfiltered(username) == store["alice"] \o store["bob"]

\* get_contacts, line 74: contacts_list = contacts_db.get_contacts(username).
contacts_list(username) == db_get_contacts(username)

db_add_contact(contact) ==
  store' = [store EXCEPT ![contact.username] = Append(@, contact)]

(***************************************************************************)
(* GET /contacts/<username>                                                 *)
(***************************************************************************)
\* GetGate with PermissionError left uncaught.
GetGateLeaky(header, username) ==
  LET dec == jwt_decode(TokenOf(header))
  IN IF ~dec.ok THEN "denied"
     ELSE IF "user" \notin DOMAIN dec.claims THEN "fault"
     ELSE IF ~IdentityOk(username, dec.claims) THEN "fault"
     ELSE "query"

\* get_contacts up to the store query: "denied" (401), "fault" (KeyError on
\* auth_payload["user"], which the handler does not catch) or "query".
GetGate(header, username) ==
  LET dec == jwt_decode(TokenOf(header))
  IN IF ~dec.ok THEN "denied"
     ELSE IF "user" \notin DOMAIN dec.claims THEN "fault"
     ELSE IF ~IdentityOk(username, dec.claims) THEN "denied"
     ELSE "query"

get_contacts(header, username) ==
  LET gate == GetGate(header, username)
      R(status, msg, list, reads, failed) ==
        Response("GET", header, username, <<>>, status, msg, list, FALSE, reads, 0,
                 acked[username], failed)
  IN /\ last = NoResponse
     /\ \/ /\ gate = "denied"
           /\ last' = R(401, MsgDenied, <<>>, 0, "none")
        \/ /\ gate = "fault"
           /\ last' = R(500, MsgUnhandled, <<>>, 0, "none")
        \/ /\ gate = "query"
           /\ \E dbfail \in BOOLEAN :
                last' = IF dbfail THEN R(500, StoreFailure("GET"), <<>>, 1, "read")
                        ELSE R(200, "", contacts_list(username), 1, "none")
     /\ UNCHANGED <<store, slot, acked>>

(***************************************************************************)
(* POST /contacts/<username>                                                *)
(***************************************************************************)
\* add_contact up to the store: token, identity, sanitizer, validator and
\* the self-reference rule.  The result names the response, or "query" when
\* _check_contact_allowed goes on to read the user's contacts.  "fault" is
\* an exception the handler does not catch: KeyError on a missing claim,
\* TypeError from the validator.
AddGate(header, username, body) ==
  LET dec == jwt_decode(TokenOf(header))
      req == Sanitize(body)
      val == validate_new_contact(req)
      G(kind, status, msg, validated) ==
        [kind |-> kind, status |-> status, msg |-> msg, validated |-> validated]
  IN IF ~dec.ok THEN G("denied", 401, MsgDenied, FALSE)
     ELSE IF "user" \notin DOMAIN dec.claims THEN G("fault", 500, MsgUnhandled, FALSE)
     ELSE IF ~IdentityOk(username, dec.claims) THEN G("denied", 401, MsgDenied, FALSE)
     ELSE IF val = "TypeError" THEN G("fault", 500, MsgUnhandled, TRUE)
     ELSE IF val # "ok" THEN G("invalid", 400, val, TRUE)
     ELSE IF "acct" \notin DOMAIN dec.claims THEN G("fault", 500, MsgUnhandled, TRUE)
     ELSE IF SelfReference(dec.claims["acct"], req) THEN G("conflict", 409, MsgSelf, TRUE)
     ELSE G("query", 0, "", TRUE)

\* The handler from the request to its response or, when every check passed,
\* to the point just before contacts_db.add_contact.
add_contact(header, username, body) ==
  LET gate == AddGate(header, username, body)
      req  == Sanitize(body)
      dup  == CheckExisting(db_get_contacts(username), req)
      R(status, msg, validated, reads, failed) ==
        Response("POST", header, username, body, status, msg, <<>>, validated, reads, 0,
                 acked[username], failed)
  IN /\ last = NoResponse
     /\ \/ /\ gate.kind # "query"
           /\ last' = R(gate.status, gate.msg, gate.validated, 0, "none")
           /\ UNCHANGED slot
        \/ /\ gate.kind = "query"
           /\ last' = R(500, StoreFailure("POST"), TRUE, 1, "read")
           /\ UNCHANGED slot
        \/ /\ gate.kind = "query"
           /\ dup # "ok"
           /\ last' = R(409, dup, TRUE, 1, "none")
           /\ UNCHANGED slot
        \/ /\ gate.kind = "query"
           /\ dup = "ok"
           /\ Load < MaxStore
           /\ \E w \in Workers :
                /\ slot[w].pc = "idle"
                /\ slot' = [slot EXCEPT ![w] =
                     [pc |-> "append", header |-> header, username |-> username,
                      body |-> body, contact |-> ContactData(username, req),
                      prior |-> acked[username],
                      seen |-> Len(db_get_contacts(username))]]
           /\ UNCHANGED last
     /\ UNCHANGED <<store, acked>>

\* add_contact_insert with the insert made twice.
add_contact_insert_twice(w) ==
  LET s == slot[w]
      R(status, msg, failed) ==
        Response("POST", s.header, s.username, s.body, status, msg, <<>>, TRUE, 1, 1,
                 s.prior, failed)
  IN /\ last = NoResponse
     /\ s.pc = "append"
     /\ slot' = [slot EXCEPT ![w] = Idle]
     /\ \/ /\ last' = R(500, StoreFailure("POST"), "append")
           /\ UNCHANGED <<store, acked>>
        \/ /\ store' = [store EXCEPT ![s.username] = Append(Append(@, s.contact), s.contact)]
           /\ acked' = [acked EXCEPT ![s.username] = @ \cup {s.body}]
           /\ last' = R(201, "", "none")

\* contacts_db.add_contact(contact_data) and the response, lines 130-132 or,
\* on SQLAlchemyError, lines 146-149.
add_contact_insert(w) ==
  LET s == slot[w]
      R(status, msg, failed) ==
        Response("POST", s.header, s.username, s.body, status, msg, <<>>, TRUE, 1, 1,
                 s.prior, failed)
  IN /\ last = NoResponse
     /\ s.pc = "append"
     /\ slot' = [slot EXCEPT ![w] = Idle]
     /\ \/ /\ last' = R(500, StoreFailure("POST"), "append")
           /\ UNCHANGED <<store, acked>>
        \/ /\ db_add_contact(s.contact)
           /\ acked' = [acked EXCEPT ![s.username] = @ \cup {s.body}]
           /\ last' = R(201, "", "none")

\* The response leaves the server; the next request is then taken up.
send_response ==
  /\ last # NoResponse
  /\ last' = NoResponse
  /\ UNCHANGED <<store, slot, acked>>

(***************************************************************************)
(* Requests the model sends.                                                *)
(***************************************************************************)
Routing2 == <<"1", "1", "1", "1", "1", "1", "1", "1", "1">>

Headers ==
  {NoHeader, Header(<<"Bearer", " ">>), Header(<<"Bearer", " ", "garbage">>)}
    \cup {Header(<<"Bearer", " ", t>>) : t \in TokenNames}

\* Header values with no scheme word, a repeated separator, a tab as the
\* separator and a trailing space.
OddHeaders ==
  {Header(<<"tokAlice">>),
   Header(<<"Bearer", " ", " ", "tokAlice">>),
   Header(<<"Bearer", "\t", "tokAlice">>),
   Header(<<"Bearer", " ", "tokAlice", " ">>)}

LabelInputs ==
  {Str(<<"B", "o", "b">>), Str(<<"A", "l", "\n">>)}

\* account_num, routing_num and is_external of a payload.
TargetInputs ==
  {<<Str(AcctBob), Str(LOCAL_ROUTING), Bool(FALSE)>>,
   <<Str(AcctBob), Str(Routing2), Bool(TRUE)>>,
   <<Str(AcctAlice), Str(LOCAL_ROUTING), Bool(FALSE)>>,
   <<Str(AcctBob), Str(LOCAL_ROUTING), Bool(TRUE)>>}

Body(label, target) ==
  [label |-> label, account_num |-> target[1], routing_num |-> target[2],
   is_external |-> target[3]]

\* Payloads that probe the gates: one that validates, one that is a
\* self-reference for alice, one rule 4 refuses, one without is_external and
\* one whose account_num is a number.
ProbeBodies ==
  {Body(Str(<<"B", "o", "b">>), <<Str(AcctBob), Str(Routing2), Bool(TRUE)>>),
   Body(Str(<<"B", "o", "b">>), <<Str(AcctAlice), Str(LOCAL_ROUTING), Bool(FALSE)>>),
   Body(Str(<<"B", "o", "b">>), <<Str(AcctBob), Str(LOCAL_ROUTING), Bool(TRUE)>>),
   [label |-> Str(<<"B", "o", "b">>), account_num |-> Str(AcctBob),
    routing_num |-> Str(Routing2)],
   Body(Str(<<"B", "o", "b">>), <<Num(<<"7">>), Str(Routing2), Bool(TRUE)>>)}

\* The payload rule 4 refuses.
RefusedBody ==
  Body(Str(<<"B", "o", "b">>), <<Str(AcctBob), Str(LOCAL_ROUTING), Bool(TRUE)>>)

\* Payloads sent under every header: one that validates and the one rule 4
\* refuses.
AnyHeaderBodies ==
  {Body(Str(<<"B", "o", "b">>), <<Str(AcctBob), Str(Routing2), Bool(TRUE)>>),
   RefusedBody}

\* A payload whose label carries an HTML comment.
MarkupBody ==
  Body(Str(<<"B", "o", "b", "<", "!", "-", "-", "x", "-", "-", ">">>),
       <<Str(AcctBob), Str(Routing2), Bool(TRUE)>>)

\* Payloads sent under the headers of alice and of bob.
Bodies ==
  {Body(l, t) : l \in LabelInputs, t \in TargetInputs}
    \cup ProbeBodies \cup {MarkupBody}

\* The headers that carry the token of a user of the service.
UserHeaders == {Header(<<"Bearer", " ", t>>) : t \in {"tokAlice", "tokBob"}}

Init ==
  /\ store = [u \in Users |-> <<>>]
  /\ slot = [w \in Workers |-> Idle]
  /\ last = NoResponse
  /\ acked = [u \in Users |-> {}]

\* A request arrives, or a handler goes on, once the previous response has
\* left.
get_request ==
  /\ last = NoResponse
  /\ \E h \in Headers \cup OddHeaders, u \in Users : get_contacts(h, u)

post_request ==
  /\ last = NoResponse
  /\ \/ \E h \in Headers, u \in Users, b \in AnyHeaderBodies : add_contact(h, u, b)
     \/ \E h \in UserHeaders, u \in Users, b \in Bodies : add_contact(h, u, b)
     \/ \E h \in OddHeaders, u \in Users : add_contact(h, u, RefusedBody)

post_insert ==
  /\ last = NoResponse
  /\ \E w \in Workers : add_contact_insert(w)

Next ==
  \/ get_request
  \/ post_request
  \/ post_insert
  \/ send_response

Spec == Init /\ [][Next]_vars

(***************************************************************************)
(* The non-racing case: the writes of one user are handled one at a time,   *)
(* so that no other POST of the user passes its duplicate check between the *)
(* duplicate-check read and the insert of a POST.  Requests of different    *)
(* users, reads and refused writes interleave as before.                    *)
(***************************************************************************)
\* No two handlers are about to insert for the same user.
Serial ==
  \A w1, w2 \in Workers :
    (w1 # w2 /\ slot[w1].pc = "append" /\ slot[w2].pc = "append")
      => slot[w1].username # slot[w2].username

post_request_serial == post_request /\ Serial'

NextSerial ==
  \/ get_request
  \/ post_request_serial
  \/ post_insert
  \/ send_response

SpecSerial == Init /\ [][NextSerial]_vars

(***************************************************************************)
(* The validator on its own: a candidate record is drawn, then validated.   *)
(* The record is held in last.body and the verdict in last.msg.             *)
(***************************************************************************)
Absent == [t |-> "absent", v |-> <<>>]

Candidate(l, a, r, e) ==
  LET full == [label |-> l, account_num |-> a, routing_num |-> r, is_external |-> e]
  IN [k \in {f \in Fields : full[f] # Absent} |-> full[k]]

Digits30 ==
  <<"1", "2", "3", "4", "5", "6", "7", "8", "9", "0",
    "1", "2", "3", "4", "5", "6", "7", "8", "9", "0",
    "1", "2", "3", "4", "5", "6", "7", "8", "9", "0">>

AccountCandidates ==
  {Absent, Null, Num(AcctAlice), Str(AcctBob), Str(<<>>),
   Str(SubSeq(AcctBob, 1, 9)), Str(AcctBob \o <<"0">>), Str(AcctBob \o <<"\n">>),
   Str(SubSeq(AcctBob, 1, 9) \o <<"x">>)}

RoutingCandidates ==
  {Absent, Null, Num(Routing2), Str(LOCAL_ROUTING), Str(Routing2),
   Str(<<"1", "2">>), Str(LOCAL_ROUTING \o <<"\n">>),
   Str(SubSeq(Routing2, 1, 8) \o <<" ">>)}

ExternalCandidates ==
  {Absent, Null, Bool(TRUE), Bool(FALSE), Num(<<"0">>), Num(<<"1">>),
   Num(<<"0", ".", "0">>), Num(<<"-", "0", ".", "0">>),
   Num(<<"1", "0">>), Num(<<"0", ".", "5">>), Num(<<"1", "e", "-", "0", "5">>),
   Str(<<>>), Str(<<"f", "a", "l", "s", "e">>)}

LabelCandidates ==
  {Absent, Null, Num(<<"7">>), Str(<<>>), Str(<<"B", "o", "b">>),
   Str(<<"B", "o", "b", " ", "S">>), Str(<<" ", "B", "o", "b">>),
   Str(<<"A", "l", "\n">>), Str(<<"A", "l", "\n", "\n">>), Str(<<"\n">>),
   Str(<<"B", "_", "b">>), Str(<<"&", "l", "t", ";">>),
   Str(Digits30), Str(Digits30 \o <<"1">>), Str(Digits30 \o <<"\n">>)}

Candidates ==
  {Candidate(l, a, r, e) : l \in LabelCandidates, a \in AccountCandidates,
                           r \in RoutingCandidates, e \in ExternalCandidates}

InitValidate ==
  /\ store = [u \in Users |-> <<>>]
  /\ slot = [w \in Workers |-> Idle]
  /\ acked = [u \in Users |-> {}]
  /\ last \in {Response("validate", NoHeader, "", c, 0, "", <<>>, FALSE, 0, 0, {}, "none") :
                 c \in Candidates}

validate_step ==
  /\ last.method = "validate"
  /\ ~last.validated
  /\ last' = [last EXCEPT !.validated = TRUE,
                          !.msg = validate_new_contact(last.body)]
  /\ UNCHANGED <<store, slot, acked>>

SpecValidate == InitValidate /\ [][validate_step]_vars

(***************************************************************************)
(* The business-rule check on its own: a contact list of alice and a        *)
(* candidate record are drawn, then _check_contact_allowed runs with        *)
(* alice's account number.  The record is held in last.body and the verdict *)
(* in last.msg: "ok" or the message of the ValueError; last.method turns    *)
(* from "check" to "checked" and last.reads counts the store queries made.  *)
(***************************************************************************)
\* _check_contact_allowed(username, accountid, req), lines 173-187.
check_contact_allowed(username, accountid, req) ==
  IF SelfReference(accountid, req) THEN MsgSelf
  ELSE CheckExisting(db_get_contacts(username), req)

CheckLabels ==
  {Str(<<"B", "o", "b">>), Str(<<"A", "l">>), Str(<<"A", "l", "\n">>)}

CheckTargets ==
  {<<Str(AcctBob), Str(LOCAL_ROUTING), Bool(FALSE)>>,
   <<Str(AcctBob), Str(Routing2), Bool(TRUE)>>,
   <<Str(AcctAlice), Str(Routing2), Bool(TRUE)>>}

\* The records alice's list may hold: valid ones, none her own account.
CheckRecords == {Body(l, t) : l \in CheckLabels, t \in CheckTargets}

\* The candidates: those records, and alice's own account under each label.
CheckCandidates ==
  CheckRecords
    \cup {Body(l, <<Str(AcctAlice), Str(LOCAL_ROUTING), Bool(FALSE)>>) : l \in CheckLabels}

CheckLists ==
  UNION {[1..n -> {ContactData("alice", r) : r \in CheckRecords}] : n \in 0..MaxStore}

InitCheck ==
  /\ \E list \in CheckLists : store = [u \in Users |-> IF u = "alice" THEN list ELSE <<>>]
  /\ slot = [w \in Workers |-> Idle]
  /\ acked = [u \in Users |-> {}]
  /\ last \in {Response("check", NoHeader, "alice", r, 0, "", <<>>, TRUE, 0, 0, {}, "none") :
                 r \in CheckCandidates}

check_step ==
  /\ last.method = "check"
  /\ last' = [last EXCEPT !.method = "checked",
                          !.reads = IF SelfReference(Str(AcctAlice), last.body)
                                      THEN 0 ELSE 1,
                          !.msg = check_contact_allowed(last.username, Str(AcctAlice),
                                                        last.body)]
  /\ UNCHANGED <<store, slot, acked>>

SpecCheck == InitCheck /\ [][check_step]_vars

(***************************************************************************)
(* Vocabulary of the properties.                                            *)
(***************************************************************************)
\* The token of the header is one that verifies, and these are its claims.
VerifiedClaims(header) ==
  {ClaimsOf(t) : t \in {n \in TokenNames : Verifies(n) /\ TokenOf(header) = <<n>>}}

\* The request carries a verified token whose user claim is the path's user.
Authenticated(header, username) ==
  \E c \in VerifiedClaims(header) : "user" \in DOMAIN c /\ c["user"] = username

\* ... and which carries the caller's account number, as a write requires.
AuthenticatedWrite(header, username) ==
  \E c \in VerifiedClaims(header) :
    "user" \in DOMAIN c /\ c["user"] = username /\ "acct" \in DOMAIN c

Pair(c) == <<c["account_num"], c["routing_num"]>>

\* The payload passes the validator once sanitized.
StructurallyValid(body) == validate_new_contact(Sanitize(body)) = "ok"

Answered == last.method \in {"GET", "POST"}

(***************************************************************************)
(* C1.  Two simultaneous POSTs of one user with the same label and          *)
(* different (account_num, routing_num) pairs: exactly one is answered 201  *)
(* and one contact with the label is stored, never two.                     *)
(* Stated for every reachable state: no user has two payloads answered 201  *)
(* that carry one label and different pairs, and no user's list holds two   *)
(* such contacts.                                                           *)
(***************************************************************************)
C1_OneCreatedOneConflict ==
  \A u \in Users :
    /\ \A b1, b2 \in acked[u] :
         Sanitize(b1)["label"] = Sanitize(b2)["label"]
           => Pair(Sanitize(b1)) = Pair(Sanitize(b2))
    /\ \A i, j \in DOMAIN store[u] :
         store[u][i]["label"] = store[u][j]["label"]
           => Pair(store[u][i]) = Pair(store[u][j])

(***************************************************************************)
(* C2.  No user's contact list ever contains two contacts with the same     *)
(* (account_num, routing_num) pair.                                         *)
(***************************************************************************)
C2_NoDuplicateAccount ==
  \A u \in Users :
    \A i, j \in DOMAIN store[u] :
      Pair(store[u][i]) = Pair(store[u][j]) => i = j

(***************************************************************************)
(* C3.  No self-reference is persisted: a contact a POST has just stored    *)
(* does not pair the acct claim of that POST's token with the local routing *)
(* number, and no stored contact of a user pairs the acct claim of a        *)
(* verifying token of that user with the local routing number.              *)
(***************************************************************************)
C3_NoSelfReference ==
  /\ (last.method = "POST" /\ last.status = 201) =>
       \A c \in VerifiedClaims(last.header) :
         LET stored == store[last.username][Len(store[last.username])]
         IN ~(stored["account_num"] = c["acct"]
              /\ stored["routing_num"] = Str(LOCAL_ROUTING))
  /\ \A u \in Users : \A i \in DOMAIN store[u] :
       \A t \in {n \in TokenNames : Verifies(n)} :
         ("user" \in DOMAIN ClaimsOf(t) /\ ClaimsOf(t)["user"] = u
            /\ "acct" \in DOMAIN ClaimsOf(t))
           => ~(store[u][i]["account_num"] = ClaimsOf(t)["acct"]
                /\ store[u][i]["routing_num"] = Str(LOCAL_ROUTING))

\* A self-reference was refused while the caller already had contacts.
C3_Witness ==
  /\ last.method = "POST" /\ last.status = 409 /\ last.msg = MsgSelf
  /\ Len(store[last.username]) > 0
  /\ Sanitize(last.body)["routing_num"] = Str(LOCAL_ROUTING)

(***************************************************************************)
(* C4.  A GET or POST whose token fails verification is answered 401        *)
(* "authentication denied", whatever the path, the payload and the store;   *)
(* the payload is not validated and the store is neither read nor written.  *)
(***************************************************************************)
C4_BadTokenDenied ==
  (Answered /\ VerifiedClaims(last.header) = {}) =>
    /\ last.status = 401
    /\ last.msg = MsgDenied
    /\ ~last.validated
    /\ last.reads = 0
    /\ last.writes = 0

\* A POST with a bad signature and a valid payload was refused while the
\* path's user had contacts.
C4_Witness ==
  /\ last.method = "POST" /\ last.status = 401
  /\ TokenOf(last.header) = <<"tokBadSig">>
  /\ StructurallyValid(last.body)
  /\ Len(store[last.username]) > 0

(***************************************************************************)
(* C5.  A GET or POST whose token verifies but names another user than the  *)
(* path is answered 401 "authentication denied" whatever the payload; the   *)
(* store is neither read nor written, and no response that read or wrote    *)
(* the store answers a caller other than the owner of the list.             *)
(***************************************************************************)
C5_OtherUserDenied ==
  /\ (Answered /\ \E c \in VerifiedClaims(last.header) :
                    "user" \in DOMAIN c /\ c["user"] # last.username) =>
       /\ last.status = 401
       /\ last.msg = MsgDenied
       /\ ~last.validated
       /\ last.reads = 0
       /\ last.writes = 0
  /\ (Answered /\ (last.reads > 0 \/ last.writes > 0 \/ last.list # <<>>)) =>
       Authenticated(last.header, last.username)

\* Alice's token on bob's path, with a payload bob could have stored, while
\* bob has contacts.
C5_Witness ==
  /\ last.method = "POST" /\ last.status = 401
  /\ TokenOf(last.header) = <<"tokAlice">> /\ last.username = "bob"
  /\ StructurallyValid(last.body)
  /\ Len(store["bob"]) > 0

(***************************************************************************)
(* C6.  _validate_new_contact reports the first violated rule in the order  *)
(* (1) a key absent, (2) account_num null or not exactly 10 digits,         *)
(* (3) routing_num null or not exactly 9 digits, (4) is_external truthy     *)
(* with the local routing number, (5) label null or not matching the label  *)
(* pattern, and returns normally otherwise, for every candidate record.     *)
(***************************************************************************)
ClaimedVerdict(req) ==
  IF \E f \in Fields : f \notin DOMAIN req THEN MsgMissing
  ELSE IF ~(req["account_num"].t = "str" /\ MatchAccount(req["account_num"].v))
    THEN MsgAccount
  ELSE IF ~(req["routing_num"].t = "str" /\ MatchRouting(req["routing_num"].v))
    THEN MsgRouting
  ELSE IF Truthy(req["is_external"]) /\ req["routing_num"] = Str(LOCAL_ROUTING)
    THEN MsgRouting
  ELSE IF ~(req["label"].t = "str" /\ MatchLabel(req["label"].v)) THEN MsgLabel
  ELSE "ok"

\* C6: the validator reports the first violated rule of the order above, or returns normally.
C6_FirstViolatedRule ==
  (last.method = "validate" /\ last.validated) =>
    last.msg = ClaimedVerdict(last.body)

(***************************************************************************)
(* C7.  Once a POST of user U with pair (account_num, routing_num) has been *)
(* answered 201, a later authenticated, structurally valid POST of U with   *)
(* the same pair is refused and stores nothing.                             *)
(***************************************************************************)
RepeatsPair ==
  /\ last.method = "POST"
  /\ AuthenticatedWrite(last.header, last.username)
  /\ StructurallyValid(last.body)
  /\ \E b \in last.prior : Pair(Sanitize(b)) = Pair(Sanitize(last.body))

\* No two contacts of the list share a pair or a label.
DuplicateFree(list) ==
  \A i, j \in DOMAIN list :
    (Pair(list[i]) = Pair(list[j]) \/ list[i]["label"] = list[j]["label"]) => i = j

\* C7: as claimed, a repeated pair is refused 409 "account already exists as a contact" whatever its label.
\* As claimed: whatever the label and the other contacts, the answer is 409
\* "account already exists as a contact".  Stated for the requests whose
\* duplicate-check read the store answers, on a list no race has touched.
C7_IdempotentRejection ==
  (RepeatsPair /\ last.status # 500 /\ DuplicateFree(store[last.username])) =>
    /\ last.status = 409
    /\ last.msg = MsgDupAccount
    /\ last.writes = 0

\* The message the user's list calls for: that of the first contact, in
\* store order, which shares the pair or the label.
FirstCollisionMsg(list, req) ==
  LET hit == {i \in DOMAIN list : Pair(list[i]) = Pair(req)}
  IN IF \E i \in DOMAIN list :
          /\ list[i]["label"] = req["label"]
          /\ \A j \in hit : i < j
       THEN MsgDupLabel
       ELSE MsgDupAccount

\* C7: as amended, a repeated pair stores nothing and is answered by the first colliding contact.
\* As amended: the POST stores nothing and is answered 409, with "account
\* already exists as a contact" unless a contact stored before the one with
\* that pair carries the POST's label, and then with "contact already exists
\* with that label"; or it is answered 500 "failed to add contact" when the
\* duplicate-check read fails.
C7_RejectedByFirstCollision ==
  RepeatsPair =>
    /\ last.writes = 0
    /\ \/ last.status = 500 /\ last.msg = MsgAddFailed /\ last.reads = 1
       \/ /\ last.status = 409
          /\ last.msg = FirstCollisionMsg(store[last.username], Sanitize(last.body))

\* The pair was repeated under a label the user has not used.
C7_Witness ==
  /\ RepeatsPair
  /\ last.status = 409 /\ last.msg = MsgDupAccount
  /\ \A i \in DOMAIN store[last.username] :
       store[last.username][i]["label"] # Sanitize(last.body)["label"]

(***************************************************************************)
(* C8.  Round trip: a GET of user U answered 200 lists, for every POST of U *)
(* answered 201 before it, a contact of U with that POST's values.          *)
(***************************************************************************)
\* Contact c belongs to the user and has the four values of the record.
Carries(c, username, values) ==
  /\ c["username"] = username
  /\ c["label"] = values["label"]
  /\ c["account_num"] = values["account_num"]
  /\ c["routing_num"] = values["routing_num"]
  /\ c["is_external"] = values["is_external"]

\* C8: as claimed, the GET lists the values sent in the request body.
\* As claimed: the values are those sent in the request body.
C8_RoundTripUnchanged ==
  (last.method = "GET" /\ last.status = 200) =>
    \A b \in last.prior :
      \E i \in DOMAIN last.list : Carries(last.list[i], last.username, b)

\* C8: as amended, the GET lists the sanitized values of the request body.
\* As amended: an authenticated GET is answered 200 unless the store fails
\* (500), and the values listed are those of the sanitized body: each string
\* as bleach.clean returns it, any other value as sent.
C8_RoundTripSanitized ==
  /\ (last.method = "GET" /\ Authenticated(last.header, last.username)) =>
       \/ last.status = 200
       \/ last.status = 500 /\ last.msg = MsgGetFailed
  /\ (last.method = "GET" /\ last.status = 200) =>
       \A b \in last.prior :
         \E i \in DOMAIN last.list :
           Carries(last.list[i], last.username, Sanitize(b))

\* A GET listed a contact whose POST carried markup the sanitizer removed.
C8_Witness ==
  /\ last.method = "GET" /\ last.status = 200
  /\ \E b \in last.prior :
       /\ Sanitize(b) # b
       /\ \E i \in DOMAIN last.list :
            Carries(last.list[i], last.username, Sanitize(b))

(***************************************************************************)
(* C9.  Every persisted label is 1 to 30 characters long, consists of ASCII *)
(* letters, digits and spaces only, and does not start with a space.        *)
(***************************************************************************)
C9_LabelWellFormed ==
  \A u \in Users : \A i \in DOMAIN store[u] :
    LET label == store[u][i]["label"]
    IN /\ label.t = "str"
       /\ Len(label.v) >= 1
       /\ Len(label.v) <= LabelMax
       /\ \A k \in DOMAIN label.v : label.v[k] \in Digits \cup Letters \cup {" "}
       /\ label.v[1] # " "

(***************************************************************************)
(* C10.  Every persisted contact whose is_external is true has a routing    *)
(* number other than the local one, and a POST with is_external truthy and  *)
(* the local routing number stores nothing; when it is authenticated and    *)
(* its account_num is well formed, so that the routing rules are reached,   *)
(* it is answered 400 "invalid routing number".                             *)
(***************************************************************************)
ExternalWithLocalRouting(body) ==
  /\ Fields \subseteq DOMAIN body
  /\ Truthy(Sanitize(body)["is_external"])
  /\ Sanitize(body)["routing_num"] = Str(LOCAL_ROUTING)

\* C10: no external contact with the local routing number is stored, and such a POST is refused.
C10_ExternalNotLocal ==
  /\ \A u \in Users : \A i \in DOMAIN store[u] :
       Truthy(store[u][i]["is_external"])
         => store[u][i]["routing_num"] # Str(LOCAL_ROUTING)
  /\ (last.method = "POST" /\ ExternalWithLocalRouting(last.body)) =>
       /\ last.writes = 0
       /\ last.status # 201
       /\ (/\ Authenticated(last.header, last.username)
           /\ Sanitize(last.body)["account_num"].t = "str"
           /\ MatchAccount(Sanitize(last.body)["account_num"].v))
            => (last.status = 400 /\ last.msg = MsgRouting)

\* Such a POST was refused while the user holds an external contact.
C10_Witness ==
  /\ last.method = "POST" /\ ExternalWithLocalRouting(last.body)
  /\ last.status = 400 /\ last.msg = MsgRouting
  /\ \E i \in DOMAIN store[last.username] :
       Truthy(store[last.username][i]["is_external"])

(***************************************************************************)
(* C11.  Every POST ends in exactly one of the documented outcomes: 201     *)
(* with an empty body, 401 "authentication denied", 400 with a validation   *)
(* reason, 409 with a conflict reason, or 500 "failed to add contact" after *)
(* a storage failure; no other fault escapes the handler.                   *)
(***************************************************************************)
ValidationReasons == {MsgMissing, MsgAccount, MsgRouting, MsgLabel}

ConflictReasons == {MsgSelf, MsgDupAccount, MsgDupLabel}

\* C11: every POST ends in one of the documented outcomes.
C11_DocumentedOutcome ==
  last.method = "POST" =>
    \/ last.status = 201 /\ last.msg = ""
    \/ last.status = 401 /\ last.msg = MsgDenied
    \/ last.status = 400 /\ last.msg \in ValidationReasons
    \/ last.status = 409 /\ last.msg \in ConflictReasons
    \/ last.status = 500 /\ last.msg = MsgAddFailed /\ last.failed # "none"

(***************************************************************************)
(* C12.  Contacts are append-only and created only by their owner: in every *)
(* step each user's list is unchanged or is the previous list with one      *)
(* contact appended, and a contact of user U is appended only by a POST to  *)
(* /contacts/U with a verified token of U whose payload passed validation   *)
(* and the business-rule check.                                             *)
(***************************************************************************)
\* No contact of the list has the pair or the label of the record.
NoCollision(list, req) ==
  \A i \in DOMAIN list :
    Pair(list[i]) # Pair(req) /\ list[i]["label"] # req["label"]

\* The step appends contact c to the list of u on behalf of the handler in
\* slot w, whose duplicate check read the first slot[w].seen contacts.
OwnerAppend(u, c, w) ==
  /\ slot[w].pc = "append" /\ slot'[w] = Idle
  /\ slot[w].username = u
  /\ c["username"] = u
  /\ Carries(c, u, Sanitize(slot[w].body))
  /\ Authenticated(slot[w].header, u)
  /\ StructurallyValid(slot[w].body)
  /\ \A cl \in VerifiedClaims(slot[w].header) :
       ~(c["account_num"] = cl["acct"] /\ c["routing_num"] = Str(LOCAL_ROUTING))
  /\ slot[w].seen <= Len(store[u])
  /\ NoCollision(SubSeq(store[u], 1, slot[w].seen), c)
  /\ last'.method = "POST" /\ last'.status = 201
  /\ last'.username = u /\ last'.header = slot[w].header
  /\ last'.body = slot[w].body

\* C12: every step leaves each list unchanged or appends one contact for its owner.
C12_AppendOnlyByOwner ==
  [][\A u \in Users :
       \/ store'[u] = store[u]
       \/ /\ Len(store'[u]) = Len(store[u]) + 1
          /\ SubSeq(store'[u], 1, Len(store[u])) = store[u]
          /\ \E w \in Workers : OwnerAppend(u, store'[u][Len(store'[u])], w)]_vars

\* A contact was appended to a list that held one already.
C12_Witness ==
  /\ last.method = "POST" /\ last.status = 201
  /\ Len(store[last.username]) >= 2
  /\ Authenticated(last.header, last.username)

(***************************************************************************)
(* C13.  Authentication failures are indistinguishable: on either endpoint  *)
(* a request whose token fails verification and a request whose verified    *)
(* token names another user than the path receive the same response, status *)
(* 401 with body "authentication denied", whatever the payload and the      *)
(* store.  Both kinds of request are held to one fixed response, so any two *)
(* of them are answered alike.                                              *)
(***************************************************************************)
\* What the caller sees of a response.
Observable(r) == [status |-> r.status, msg |-> r.msg, list |-> r.list]

NamesOtherUser(header, username) ==
  \E c \in VerifiedClaims(header) : "user" \in DOMAIN c /\ c["user"] # username

\* C13: both kinds of authentication failure receive 401 "authentication denied".
C13_DeniedAlike ==
  (Answered /\ (VerifiedClaims(last.header) = {}
                  \/ NamesOtherUser(last.header, last.username))) =>
    Observable(last) = [status |-> 401, msg |-> MsgDenied, list |-> <<>>]

\* Another user's verified token was refused on the list of a user who has
\* contacts.
C13_Witness ==
  /\ last.method = "GET"
  /\ NamesOtherUser(last.header, last.username)
  /\ last.status = 401
  /\ store[last.username] # <<>>

(***************************************************************************)
(* C14.  A storage failure is surfaced at once and never retried: a failed  *)
(* query of an authenticated GET is answered 500 "failed to retrieve        *)
(* contacts list"; a failed duplicate-check read or a failed append of an   *)
(* authenticated, structurally valid POST is answered 500 "failed to add    *)
(* contact".  The failing call is the handler's last store call, and after  *)
(* a failed read the append is not attempted.                               *)
(***************************************************************************)
C14_FailureSurfaced ==
  /\ (last.method = "GET" /\ last.failed # "none") =>
       /\ Authenticated(last.header, last.username)
       /\ last.status = 500 /\ last.msg = MsgGetFailed
       /\ last.failed = "read" /\ last.reads = 1 /\ last.writes = 0
  /\ (last.method = "POST" /\ last.failed = "read") =>
       /\ AuthenticatedWrite(last.header, last.username)
       /\ StructurallyValid(last.body)
       /\ last.status = 500 /\ last.msg = MsgAddFailed
       /\ last.reads = 1 /\ last.writes = 0
  /\ (last.method = "POST" /\ last.failed = "append") =>
       /\ AuthenticatedWrite(last.header, last.username)
       /\ StructurallyValid(last.body)
       /\ last.status = 500 /\ last.msg = MsgAddFailed
       /\ last.reads = 1 /\ last.writes = 1

\* The duplicate-check read of a POST failed while the user had contacts.
C14_Witness ==
  /\ last.method = "POST" /\ last.failed = "read"
  /\ last.status = 500
  /\ store[last.username] # <<>>

(***************************************************************************)
(* C15.  The gates of a write run in the order token verification, identity *)
(* binding, sanitization, validation, self-reference check, store read,     *)
(* duplicate check, append, and the first failing gate decides the          *)
(* response: an authenticated POST with a structurally invalid payload is   *)
(* answered 400 with the validator's reason and never 409, even when it is  *)
(* also a self-reference or a duplicate, and an authenticated, structurally *)
(* valid self-reference is answered 409 "may not add yourself to contacts"  *)
(* whatever the store holds, without the store being read.                  *)
(***************************************************************************)
\* The payload pairs the acct claim of the request's token with the local
\* routing number.
IsSelfReference(header, body) ==
  \E c \in VerifiedClaims(header) :
    /\ "acct" \in DOMAIN c
    /\ Sanitize(body)["account_num"] = c["acct"]
    /\ Sanitize(body)["routing_num"] = Str(LOCAL_ROUTING)

\* C15: the first failing gate, in the order above, decides the response.
C15_GateOrder ==
  /\ (last.method = "POST" /\ ~Authenticated(last.header, last.username)) =>
       ~last.validated /\ last.reads = 0 /\ last.writes = 0
  /\ (/\ last.method = "POST"
      /\ Authenticated(last.header, last.username)
      /\ ClaimedVerdict(Sanitize(last.body)) # "ok") =>
       /\ last.status = 400
       /\ last.msg = ClaimedVerdict(Sanitize(last.body))
       /\ last.reads = 0 /\ last.writes = 0
  /\ (/\ last.method = "POST"
      /\ AuthenticatedWrite(last.header, last.username)
      /\ StructurallyValid(last.body)
      /\ IsSelfReference(last.header, last.body)) =>
       /\ last.status = 409 /\ last.msg = MsgSelf
       /\ last.reads = 0 /\ last.writes = 0

(***************************************************************************)
(* C16.  In _check_contact_allowed the conflict message is decided by the   *)
(* first existing contact, in the order the store returns them, that        *)
(* collides with the candidate: "account already exists as a contact" if    *)
(* that contact has the candidate's pair, otherwise (same label only)       *)
(* "contact already exists with that label"; the check passes exactly when  *)
(* no existing contact shares the candidate's pair or its label.  Stated    *)
(* for the candidates that reach the loop over the existing contacts; one   *)
(* that names the caller's own account is refused before it.                *)
(***************************************************************************)
\* The positions of the contacts that collide with the record.
Collisions(list, req) ==
  {i \in DOMAIN list : Pair(list[i]) = Pair(req) \/ list[i]["label"] = req["label"]}

\* C16: the first colliding contact decides the message; no collision, no refusal.
C16_FirstCollisionDecides ==
  last.method = "checked" =>
    LET list == store[last.username]
        hits == Collisions(list, last.body)
    IN IF /\ last.body["account_num"] = Str(AcctAlice)
          /\ last.body["routing_num"] = Str(LOCAL_ROUTING)
         THEN last.msg = MsgSelf /\ last.reads = 0
       ELSE IF last.reads # 1 THEN FALSE
       ELSE IF hits = {} THEN last.msg = "ok"
       ELSE LET first == CHOOSE i \in hits : \A j \in hits : i <= j
            IN last.msg = IF Pair(list[first]) = Pair(last.body)
                            THEN MsgDupAccount ELSE MsgDupLabel

\* The first contact shares only the label, the second has the pair, and the
\* answer is that of the label.
C16_Witness ==
  /\ last.method = "checked" /\ last.reads = 1
  /\ Collisions(store[last.username], last.body) = {1, 2}
  /\ Pair(store[last.username][1]) # Pair(last.body)
  /\ Pair(store[last.username][2]) = Pair(last.body)
  /\ last.msg = MsgDupLabel

(***************************************************************************)
(* C17.  In the non-racing case no user's contact list ever holds two       *)
(* contacts with the same label, and an authenticated, structurally valid,  *)
(* non-self-referencing POST whose label is that of an existing contact of  *)
(* the user stores nothing and, once its duplicate-check read has returned, *)
(* is answered 409.                                                         *)
(***************************************************************************)
\* A POST answered 201 before this request came in stored the label.
RepeatsLabel ==
  /\ last.method = "POST"
  /\ AuthenticatedWrite(last.header, last.username)
  /\ StructurallyValid(last.body)
  /\ ~IsSelfReference(last.header, last.body)
  /\ \E b \in last.prior : Sanitize(b)["label"] = Sanitize(last.body)["label"]

\* C17: without racing writes labels stay unique and a repeated label is refused.
C17_SerialLabelUnique ==
  /\ \A u \in Users : \A i, j \in DOMAIN store[u] :
       store[u][i]["label"] = store[u][j]["label"] => i = j
  /\ RepeatsLabel =>
       /\ last.writes = 0
       /\ last.failed = "none" => last.status = 409 /\ last.msg \in ConflictReasons
       /\ \E i \in DOMAIN store[last.username] :
            store[last.username][i]["label"] = Sanitize(last.body)["label"]

\* A label was repeated for an account the user has not stored.
C17_Witness ==
  /\ RepeatsLabel
  /\ last.status = 409 /\ last.msg = MsgDupLabel
  /\ store[last.username] # <<>>
  /\ \A i \in DOMAIN store[last.username] :
       Pair(store[last.username][i]) # Pair(Sanitize(last.body))

(***************************************************************************)
(* C18.  Every request that is not answered 201 leaves the store as it was: *)
(* every GET and every POST answered 401, 400, 409, or 500 after a failed   *)
(* duplicate-check read leaves every user's list unchanged; a POST answered *)
(* 201 changes only the list of the path's user, by one appended contact.   *)
(***************************************************************************)
\* The step hands out a response.
Responds == last = NoResponse /\ last' # NoResponse

\* C18: only a POST answered 201 changes the store, by one contact of the path's user.
C18_Frame ==
  [][/\ (Responds /\ ~(last'.method = "POST" /\ last'.status = 201)
                  /\ last'.failed # "append") => store' = store
     /\ (Responds /\ last'.method = "POST" /\ last'.status = 201) =>
          /\ \A u \in Users \ {last'.username} : store'[u] = store[u]
          /\ \E c \in {store'[last'.username][Len(store'[last'.username])]} :
               store'[last'.username] = Append(store[last'.username], c)
     /\ ~Responds => store' = store]_vars

\* A POST was refused with 409 while both users had a contact.
C18_Witness ==
  /\ last.method = "POST" /\ last.status = 409
  /\ \A u \in Users : store[u] # <<>>

(***************************************************************************)
(* C19.  An authenticated GET /contacts/U whose store query returns is      *)
(* answered 200 with exactly the sequence the store holds for U at the      *)
(* moment of the read: every contact of U, in store order, and no contact   *)
(* of another user.                                                         *)
(***************************************************************************)
C19_ListIsStoreList ==
  (/\ last.method = "GET"
   /\ Authenticated(last.header, last.username)
   /\ last.failed = "none") =>
    /\ last.status = 200
    /\ last.reads = 1
    /\ Len(last.list) = Len(store[last.username])
    /\ \A i \in DOMAIN last.list :
         /\ last.list[i] = store[last.username][i]
         /\ last.list[i]["username"] = last.username

\* A user's contacts were listed while the other user had contacts too.
C19_Witness ==
  /\ last.method = "GET" /\ last.status = 200
  /\ last.list # <<>>
  /\ \A u \in Users : store[u] # <<>>

(***************************************************************************)
(* C20.  The token handed to verification is the last whitespace-separated  *)
(* segment of the Authorization header value, for every header value:       *)
(* without a scheme word, with a tab or a repeated separator, with trailing *)
(* whitespace; an absent header yields the empty token, which fails         *)
(* verification and is answered 401.                                        *)
(***************************************************************************)
Whitespace == {" ", "\t"}

\* The last segment of the text when it is cut at every run of whitespace.
LastWhitespaceSegment(text) ==
  LET solid == {i \in DOMAIN text : text[i] \notin Whitespace}
  IN IF solid = {} THEN <<>>
     ELSE LET e == Max(solid)
              gaps == {i \in 1..e : text[i] \in Whitespace}
          IN SubSeq(text, IF gaps = {} THEN 1 ELSE Max(gaps) + 1, e)

\* C20: the token verified is the last whitespace-separated segment of the header.
C20_LastWhitespaceSegment ==
  Answered =>
    IF last.header.present
      THEN TokenOf(last.header) = LastWhitespaceSegment(last.header.text)
      ELSE /\ TokenOf(last.header) = <<>>
           /\ last.status = 401 /\ last.msg = MsgDenied

============================================================================
